---- MODULE Spec2Model ----
(***************************************************************************)
(* Model of app.py, the Streamlit customer support bot.                    *)
(*                                                                         *)
(* The script is re-run from top to bottom on every widget event of a      *)
(* browser session.  The state is the chats/ directory (disk), and for     *)
(* every browser session its st.session_state.customer_chats dictionary,   *)
(* the value of the customer ID text input, the position of the running    *)
(* script and the script's local variables.  Strings are TLA+ strings and  *)
(* string concatenation is \o; a dictionary or a directory is a function   *)
(* whose DOMAIN is its set of keys.                                        *)
(***************************************************************************)
EXTENDS Integers, Sequences, FiniteSets, TLC

VARIABLES api_key, disk, tabs, customer_chats, customer_id, pc,
          user_input, stream, streamed_text, old_chat, op

vars == <<api_key, disk, tabs, customer_chats, customer_id, pc,
          user_input, stream, streamed_text, old_chat, op>>

(* ------------------------------ bounds --------------------------------- *)

\* longest in-memory conversation a submit may produce
MaxMsgs == 4
\* longest history record an archive may produce
MaxHistory == 3

(* ------------------------------ inputs --------------------------------- *)

\* browser sessions that may be open
Sessions == {1, 2}
\* values typed into the customer ID box; "" is the empty box
CustomerIDs == {"42", "42_history"}
IDInputs == CustomerIDs \cup {""}
\* texts typed into the chat box
UserTexts == {"Hello"}
\* an event of the stream with a text delta, and one without (content is None)
Event(text) == [present |-> TRUE, content |-> text]
NoDelta == [present |-> FALSE, content |-> ""]
\* the event sequences the backend may stream; a stream may fail, and a run
\* may be stopped, after any prefix of one
Replies == {<<Event("Hi"), NoDelta, Event(" there")>>}
\* the events that may follow the events seen so far
NextChunks(seen) ==
    {r[Len(seen) + 1] : r \in {q \in Replies :
        Len(q) > Len(seen) /\ SubSeq(q, 1, Len(seen)) = seen}}
\* messages of the exceptions the completion call raises
Errors == {"timeout"}
\* values of OPENAI_API_KEY; "" is the unset variable
ApiKeys == {"", "sk"}

(* --------------------------- configuration ----------------------------- *)

system_prompt == "You are a friendly, concise customer support agent."
CHAT_DIR == "chats"
\* the literal of the f-string in the except branch (its warning glyph left out)
ErrorMarker == "Error: "

(* ------------------------------ helpers -------------------------------- *)

Msg(role, content) == [role |-> role, content |-> content]

SystemMessage == Msg("system", system_prompt)

\* d[k] = v on a dictionary
Put(d, k, v) == [x \in (DOMAIN d) \cup {k} |-> IF x = k THEN v ELSE d[x]]

EmptyDict == <<>>

\* line 19, "if not api_key:" is not taken
HasCredentialAlways(key) == TRUE
HasCredential(key) == key # ""

\* truthiness of the customer ID: "if customer_id:"
HasCustomerAlways(cid) == TRUE
HasCustomer(cid) == cid # ""

\* json.dump of a list of messages: the text of a record, one object of the
\* keys "role" and "content" per message (indentation is not modelled)
json_dump(chat) ==
    [i \in 1..Len(chat) |-> <<"role", chat[i].role, "content", chat[i].content>>]

\* json.load of the text of a record
json_load(text) ==
    [i \in 1..Len(text) |-> [role |-> text[i][2], content |-> text[i][4]]]

chat_file(cid) == CHAT_DIR \o "/customer_" \o cid \o ".json"

history_file(cid) == CHAT_DIR \o "/customer_" \o cid \o "_history.json"

load_chat_empty(d, cid) ==
    IF chat_file(cid) \in DOMAIN d THEN json_load(d[chat_file(cid)]) ELSE <<>>
load_chat(d, cid) ==
    IF chat_file(cid) \in DOMAIN d THEN json_load(d[chat_file(cid)])
    ELSE <<SystemMessage>>

save_chat_nothing(d, cid, chat) == d
save_chat_if_absent(d, cid, chat) ==
    IF chat_file(cid) \in DOMAIN d THEN d ELSE Put(d, chat_file(cid), json_dump(chat))
save_chat(d, cid, chat) == Put(d, chat_file(cid), json_dump(chat))

RECURSIVE NonSystem(_)
NonSystem(chat) ==
    IF chat = <<>> THEN <<>>
    ELSE IF Head(chat).role # "system"
         THEN <<Head(chat)>> \o NonSystem(Tail(chat))
         ELSE NonSystem(Tail(chat))

save_to_history_overwrite(d, cid, chat) ==
    Put(d, history_file(cid), json_dump(NonSystem(chat)))
save_to_history_unfiltered(d, cid, chat) ==
    LET path == history_file(cid)
        history == IF path \in DOMAIN d THEN json_load(d[path]) ELSE <<>>
    IN  Put(d, path, json_dump(history \o chat))
save_to_history(d, cid, chat) ==
    LET path == history_file(cid)
        history == IF path \in DOMAIN d THEN json_load(d[path]) ELSE <<>>
    IN  Put(d, path, json_dump(history \o NonSystem(chat)))

\* lines 74-79: load the conversation on first access of the ID in a session
EnsureLoaded(cc, d, cid) ==
    IF HasCustomer(cid) /\ cid \notin DOMAIN cc
    THEN Put(cc, cid, load_chat(d, cid))
    ELSE cc

\* "chunk.choices[0].delta.content or ''"
Delta(chunk) == IF chunk.present /\ chunk.content # "" THEN chunk.content ELSE ""

AccumulateReversed(text, chunk) == Delta(chunk) \o text
Accumulate(text, chunk) == text \o Delta(chunk)

ErrorTextBare(e) == e
ErrorText(e) == ErrorMarker \o e

\* line 159: the assignment in the except branch
OnErrorAppend(text, e) == text \o ErrorText(e)
OnError(text, e) == ErrorText(e)

(* ------------------------------- state --------------------------------- *)

NoLocals(s) ==
    /\ user_input' = [user_input EXCEPT ![s] = ""]
    /\ stream' = [stream EXCEPT ![s] = <<>>]
    /\ streamed_text' = [streamed_text EXCEPT ![s] = ""]
    /\ old_chat' = [old_chat EXCEPT ![s] = <<>>]

Ran(name, s) == op' = [name |-> name, tab |-> s]

\* the state of the process and of each open session before any event
InitWith(open) ==
    /\ api_key \in ApiKeys
    /\ disk = EmptyDict
    /\ tabs = open
    /\ customer_chats = [s \in open |-> EmptyDict]
    /\ customer_id = [s \in open |-> ""]
    /\ pc = [s \in open |-> "idle"]
    /\ user_input = [s \in open |-> ""]
    /\ stream = [s \in open |-> <<>>]
    /\ streamed_text = [s \in open |-> ""]
    /\ old_chat = [s \in open |-> <<>>]
    /\ op = [name |-> "start", tab |-> 0]

\* one browser session: the single writer the design assumes
Init == InitWith({1})

(* ------------------------------ actions -------------------------------- *)

\* line 19-21: without the credential every run of the script stops at once
Halted(s) ==
    /\ ~HasCredential(api_key)
    /\ pc[s] = "idle"
    /\ Ran("Halted", s)
    /\ UNCHANGED <<api_key, disk, tabs, customer_chats, customer_id, pc,
                   user_input, stream, streamed_text, old_chat>>

\* a new value in the customer ID box: the script runs with no button pressed
\* and no chat input
SetCustomer(s, v) ==
    /\ HasCredential(api_key)
    /\ pc[s] = "idle"
    /\ customer_id' = [customer_id EXCEPT ![s] = v]
    /\ customer_chats' = [customer_chats EXCEPT
                            ![s] = EnsureLoaded(customer_chats[s], disk, v)]
    /\ Ran("SetCustomer", s)
    /\ UNCHANGED <<api_key, disk, tabs, pc,
                   user_input, stream, streamed_text, old_chat>>

\* New Chat with the two writes in the other order
NewChatOverwriteFirst(s) ==
    LET cid == customer_id[s]
        cc == EnsureLoaded(customer_chats[s], disk, cid)
    IN  /\ HasCredential(api_key)
        /\ pc[s] = "idle"
        /\ Ran("NewChat", s)
        /\ IF HasCustomer(cid)
           THEN /\ customer_chats' = [customer_chats EXCEPT ![s] = cc]
                /\ old_chat' = [old_chat EXCEPT ![s] = cc[cid]]
                /\ disk' = save_chat(disk, cid, <<SystemMessage>>)
                /\ pc' = [pc EXCEPT ![s] = "archived"]
                /\ UNCHANGED <<api_key, tabs, customer_id,
                               user_input, stream, streamed_text>>
           ELSE UNCHANGED <<api_key, disk, tabs, customer_chats, customer_id,
                            pc, user_input, stream, streamed_text, old_chat>>

\* New Chat pressed, lines 87-91: the run up to the end of save_to_history
NewChat(s) ==
    LET cid == customer_id[s]
        cc == EnsureLoaded(customer_chats[s], disk, cid)
    IN  /\ HasCredential(api_key)
        /\ pc[s] = "idle"
        /\ Ran("NewChat", s)
        /\ IF HasCustomer(cid)
           THEN /\ (IF history_file(cid) \in DOMAIN disk
                     THEN Len(disk[history_file(cid)]) ELSE 0)
                     + Len(NonSystem(cc[cid])) <= MaxHistory
                /\ customer_chats' = [customer_chats EXCEPT ![s] = cc]
                /\ old_chat' = [old_chat EXCEPT ![s] = cc[cid]]
                /\ disk' = save_to_history(disk, cid, cc[cid])
                /\ pc' = [pc EXCEPT ![s] = "archived"]
                /\ UNCHANGED <<api_key, tabs, customer_id,
                               user_input, stream, streamed_text>>
           ELSE UNCHANGED <<api_key, disk, tabs, customer_chats, customer_id,
                            pc, user_input, stream, streamed_text, old_chat>>

\* lines 93-99: the fresh conversation replaces the old one and is saved;
\* st.rerun() then runs the script again, which changes nothing
NewChatFresh(s) ==
    LET cid == customer_id[s]
        fresh == <<SystemMessage>>
    IN  /\ pc[s] = "archived"
        /\ customer_chats' = [customer_chats EXCEPT ![s] = Put(@, cid, fresh)]
        /\ disk' = save_chat(disk, cid, fresh)
        /\ pc' = [pc EXCEPT ![s] = "idle"]
        /\ NoLocals(s)
        /\ Ran("NewChatFresh", s)
        /\ UNCHANGED <<api_key, tabs, customer_id>>

\* text submitted in the chat box, lines 123-141: the user message is
\* appended and saved and the completion request is about to be made
Submit(s, text) ==
    LET cid == customer_id[s]
        cc == EnsureLoaded(customer_chats[s], disk, cid)
        input == IF HasCustomer(cid) THEN text ELSE ""
    IN  /\ HasCredential(api_key)
        /\ pc[s] = "idle"
        /\ Ran("Submit", s)
        /\ IF input # "" /\ HasCustomer(cid)
           THEN LET chat == Append(cc[cid], Msg("user", input))
                IN  /\ Len(chat) + 1 <= MaxMsgs
                    /\ customer_chats' = [customer_chats EXCEPT
                                            ![s] = Put(cc, cid, chat)]
                    /\ disk' = save_chat(disk, cid, chat)
                    /\ user_input' = [user_input EXCEPT ![s] = input]
                    /\ stream' = [stream EXCEPT ![s] = <<>>]
                    /\ streamed_text' = [streamed_text EXCEPT ![s] = ""]
                    /\ pc' = [pc EXCEPT ![s] = "streaming"]
                    /\ UNCHANGED <<api_key, tabs, customer_id, old_chat>>
           ELSE UNCHANGED <<api_key, disk, tabs, customer_chats, customer_id,
                            pc, user_input, stream, streamed_text, old_chat>>

\* lines 152-156: one event of the stream arrives
Chunk(s, chunk) ==
    /\ pc[s] = "streaming"
    /\ chunk \in NextChunks(stream[s])
    /\ stream' = [stream EXCEPT ![s] = Append(@, chunk)]
    /\ streamed_text' = [streamed_text EXCEPT ![s] = Accumulate(@, chunk)]
    /\ Ran("Chunk", s)
    /\ UNCHANGED <<api_key, disk, tabs, customer_chats, customer_id, pc,
                   user_input, old_chat>>

\* lines 162-165: the assistant message is appended and saved
Reply(s) ==
    LET cid == customer_id[s]
        chat == Append(customer_chats[s][cid],
                       Msg("assistant", streamed_text'[s]))
    IN  /\ customer_chats' = [customer_chats EXCEPT ![s] = Put(@, cid, chat)]
        /\ disk' = save_chat(disk, cid, chat)
        /\ pc' = [pc EXCEPT ![s] = "idle"]
        /\ UNCHANGED <<api_key, tabs, customer_id, user_input, stream, old_chat>>

\* the stream is exhausted: the assembled text is the reply
Finish(s) ==
    /\ pc[s] = "streaming"
    /\ stream[s] \in Replies
    /\ streamed_text' = streamed_text
    /\ Reply(s)
    /\ Ran("Finish", s)

\* lines 158-160: the request or the iteration raises; the error string
\* replaces the text received so far and is the reply
Fail(s, e) ==
    /\ pc[s] = "streaming"
    /\ streamed_text' = [streamed_text EXCEPT ![s] = OnError(@, e)]
    /\ Reply(s)
    /\ Ran("Fail", s)

\* a widget event during streaming: the runtime stops the run at its next
\* st call by an exception that "except Exception" does not catch
Interrupt(s) ==
    /\ pc[s] = "streaming"
    /\ pc' = [pc EXCEPT ![s] = "idle"]
    /\ NoLocals(s)
    /\ Ran("Interrupt", s)
    /\ UNCHANGED <<api_key, disk, tabs, customer_chats, customer_id>>

\* the process stops and starts again: every session state is lost,
\* the chats/ directory stays
Restart ==
    /\ customer_chats' = [s \in tabs |-> EmptyDict]
    /\ customer_id' = [s \in tabs |-> ""]
    /\ pc' = [s \in tabs |-> "idle"]
    /\ user_input' = [s \in tabs |-> ""]
    /\ stream' = [s \in tabs |-> <<>>]
    /\ streamed_text' = [s \in tabs |-> ""]
    /\ old_chat' = [s \in tabs |-> <<>>]
    /\ op' = [name |-> "Restart", tab |-> 0]
    /\ UNCHANGED <<api_key, disk, tabs>>

Next ==
    \/ \E s \in tabs : Halted(s)
    \/ \E s \in tabs, v \in IDInputs : SetCustomer(s, v)
    \/ \E s \in tabs : NewChat(s)
    \/ \E s \in tabs : NewChatFresh(s)
    \/ \E s \in tabs, text \in UserTexts : Submit(s, text)
    \/ \E s \in tabs : \E chunk \in NextChunks(stream[s]) : Chunk(s, chunk)
    \/ \E s \in tabs : Finish(s)
    \/ \E s \in tabs, e \in Errors : Fail(s, e)
    \/ \E s \in tabs : Interrupt(s)
    \/ Restart

Spec == Init /\ [][Next]_vars

\* the customer ID of the specifications with one customer
SoloID == "42"

\* the events of the sessions when "42" is the only customer ID typed
NextSolo ==
    \/ \E s \in tabs : Halted(s)
    \/ \E s \in tabs, v \in {SoloID, ""} : SetCustomer(s, v)
    \/ \E s \in tabs : NewChat(s)
    \/ \E s \in tabs : NewChatFresh(s)
    \/ \E s \in tabs, text \in UserTexts : Submit(s, text)
    \/ \E s \in tabs : \E chunk \in NextChunks(stream[s]) : Chunk(s, chunk)
    \/ \E s \in tabs : Finish(s)
    \/ \E s \in tabs, e \in Errors : Fail(s, e)
    \/ \E s \in tabs : Interrupt(s)
    \/ Restart

\* one session, one customer: one writer and no second customer ID
SpecSolo == Init /\ [][NextSolo]_vars

\* a step of the script run of session s that is streaming: the thread of
\* the run goes on until the stream ends or raises
RunStep(s) ==
    \/ \E chunk \in NextChunks(stream[s]) : Chunk(s, chunk)
    \/ Finish(s)
    \/ \E e \in Errors : Fail(s, e)

\* SpecSolo with a run that is never left waiting forever
FairSolo == SpecSolo /\ WF_vars(RunStep(1))

\* two browser sessions on the same process
InitTwo == InitWith({1, 2})

\* two sessions, one customer
SpecTwo == InitTwo /\ [][NextSolo]_vars

(* ------------------------- vocabulary of the claims -------------------- *)

\* the history log of a customer: the history record read back, empty while
\* there is none
HistoryLog(d, cid) ==
    IF history_file(cid) \in DOMAIN d THEN json_load(d[history_file(cid)])
    ELSE <<>>

HasActiveRecord(d, cid) == chat_file(cid) \in DOMAIN d

\* the persisted active record of a customer, read back
ActiveRecord(d, cid) == json_load(d[chat_file(cid)])

IsPrefix(a, b) == Len(a) <= Len(b) /\ SubSeq(b, 1, Len(a)) = a

StartsWith(text, marker) ==
    Len(text) >= Len(marker) /\ SubSeq(text, 1, Len(marker)) = marker

Last(seq) == seq[Len(seq)]

WithoutSystem(chat) == SelectSeq(chat, LAMBDA m : m.role # "system")

OnlySystem(chat) == \A i \in 1..Len(chat) : chat[i].role = "system"

OneSystemFirst(chat) ==
    /\ Len(chat) >= 1
    /\ chat[1].role = "system"
    /\ \A i \in 2..Len(chat) : chat[i].role # "system"

RECURSIVE JoinDeltas(_)
JoinDeltas(events) ==
    IF events = <<>> THEN ""
    ELSE (IF Head(events).present THEN Head(events).content ELSE "")
         \o JoinDeltas(Tail(events))

\* the step just taken was the named operation of session s
Did(name, s) == op'.name = name /\ op'.tab = s

(* ------------------------------- claims -------------------------------- *)

\* C1: immediately after a user-message append, an assistant-message append
\* or a reset of a customer has completed, the persisted active record of
\* that customer equals the session's in-memory conversation of that customer.
C1_WriteThrough ==
    (op.name \in {"Submit", "Finish", "Fail", "NewChatFresh"}
        /\ customer_id[op.tab] # "")
    => LET s == op.tab
           cid == customer_id[s]
       IN  /\ HasActiveRecord(disk, cid)
           /\ ActiveRecord(disk, cid) = customer_chats[s][cid]

C1_Witness ==
    /\ op.name = "Finish"
    /\ customer_id[op.tab] = "42"
    /\ Len(customer_chats[op.tab]["42"]) = 3
    /\ ActiveRecord(disk, "42") = customer_chats[op.tab]["42"]

\* C2: a reset of a customer with in-memory conversation C and history H
\* first writes H followed by the non-system messages of C, in order, as the
\* history, and then leaves exactly the default system message as the active
\* conversation, in memory and persisted, with the history as written.
C2_ResetArchivesThenStartsFresh ==
    [][\A s \in tabs :
        LET cid == customer_id[s]
        IN  /\ (Did("NewChat", s) /\ cid # "")
                => /\ old_chat'[s] = customer_chats[s][cid]
                   /\ HistoryLog(disk', cid)
                        = HistoryLog(disk, cid) \o WithoutSystem(old_chat'[s])
            /\ Did("NewChatFresh", s)
                => /\ customer_chats'[s][cid] = <<Msg("system", system_prompt)>>
                   /\ HasActiveRecord(disk', cid)
                   /\ ActiveRecord(disk', cid) = <<Msg("system", system_prompt)>>
                   /\ HistoryLog(disk', cid) = HistoryLog(disk, cid)
                   /\ pc'[s] = "idle"]_vars

C2_Witness ==
    /\ op.name = "NewChatFresh"
    /\ customer_id[op.tab] = "42"
    /\ customer_chats[op.tab]["42"] = <<SystemMessage>>
    /\ ActiveRecord(disk, "42") = <<SystemMessage>>
    /\ HistoryLog(disk, "42")
         = <<Msg("user", "Hello"), Msg("user", "Hello"),
             Msg("assistant", "Hi there")>>

\* C3: every persisted active record and every loaded conversation holds
\* exactly one system message, and holds it first.
C3_OneSystemMessageFirst ==
    /\ \A cid \in CustomerIDs :
         HasActiveRecord(disk, cid) => OneSystemFirst(ActiveRecord(disk, cid))
    /\ \A s \in tabs : \A cid \in DOMAIN customer_chats[s] :
         OneSystemFirst(customer_chats[s][cid])

\* C4: the history log of every customer holds no system message.
C4_NoSystemInHistory ==
    \A cid \in CustomerIDs :
        \A i \in 1..Len(HistoryLog(disk, cid)) :
            HistoryLog(disk, cid)[i].role # "system"

\* C5: across every step the history log of a customer before the step is a
\* prefix of the history log after it.
C5_HistoryAppendOnly ==
    [][\A cid \in CustomerIDs :
        IsPrefix(HistoryLog(disk, cid), HistoryLog(disk', cid))]_vars

\* C6: the load of a customer ID that has no stored active record yields
\* exactly the system message with the configured default prompt.
C6_FirstLoadIsDefault ==
    [][\A s \in tabs : \A cid \in CustomerIDs :
        (/\ cid \notin DOMAIN customer_chats[s]
         /\ cid \in DOMAIN customer_chats'[s]
         /\ ~HasActiveRecord(disk, cid))
        => customer_chats'[s][cid] = <<Msg("system", system_prompt)>>]_vars

C6_Witness ==
    /\ op.name = "SetCustomer"
    /\ customer_id[op.tab] = "42"
    /\ ~HasActiveRecord(disk, "42")
    /\ customer_chats[op.tab]["42"] = <<Msg("system", system_prompt)>>

\* C7: when the completion call fails, after any number of events, the
\* handling completes: the conversation is the one before the failure, the
\* submitted user message last, followed by one assistant message that
\* starts with the error marker, and it is persisted so.
C7_FailureBecomesReply ==
    [][\A s \in tabs :
        Did("Fail", s)
        => LET cid == customer_id[s]
               before == customer_chats[s][cid]
               after == customer_chats'[s][cid]
           IN  /\ Len(after) = Len(before) + 1
               /\ SubSeq(after, 1, Len(before)) = before
               /\ Last(before) = Msg("user", user_input[s])
               /\ Last(after).role = "assistant"
               /\ StartsWith(Last(after).content, ErrorMarker)
               /\ HasActiveRecord(disk', cid)
               /\ ActiveRecord(disk', cid) = after
               /\ pc'[s] = "idle"]_vars

C7_Witness ==
    /\ op.name = "Fail"
    /\ Len(stream[op.tab]) >= 1
    /\ customer_id[op.tab] = "42"
    /\ ActiveRecord(disk, "42")
         = <<SystemMessage, Msg("user", "Hello"),
             Msg("assistant", "Error: timeout")>>

\* C8: a submitted user message whose stream finishes without error grows
\* the conversation by the user message with the submitted text and then by
\* one assistant message, the concatenation of the deltas of the streamed
\* events in arrival order, an event without a delta counting as "".
C8_ReplyIsConcatenation ==
    [][\A s \in tabs :
        LET cid == customer_id[s]
        IN  /\ (Did("Submit", s) /\ cid # "")
                => /\ user_input'[s] \in UserTexts
                   /\ customer_chats'[s][cid]
                        = Append(customer_chats[s][cid],
                                 Msg("user", user_input'[s]))
                   /\ stream'[s] = <<>>
            /\ Did("Chunk", s)
                => /\ customer_chats'[s] = customer_chats[s]
                   /\ user_input'[s] = user_input[s]
                   /\ Len(stream'[s]) = Len(stream[s]) + 1
                   /\ IsPrefix(stream[s], stream'[s])
            /\ Did("Finish", s)
                => /\ Last(customer_chats[s][cid]) = Msg("user", user_input[s])
                   /\ customer_chats'[s][cid]
                        = Append(customer_chats[s][cid],
                                 Msg("assistant", JoinDeltas(stream[s])))]_vars

C8_Witness ==
    /\ op.name = "Finish"
    /\ stream[op.tab] = <<Event("Hi"), NoDelta, Event(" there")>>
    /\ customer_id[op.tab] = "42"
    /\ customer_chats[op.tab]["42"]
         = <<SystemMessage, Msg("user", "Hello"), Msg("assistant", "Hi there")>>

\* C9: a reset of a conversation that holds only the system message leaves
\* the sequence of history entries of that customer as it was.
C9_ResetOfFreshAddsNothing ==
    [][\A s \in tabs :
        LET cid == customer_id[s]
        IN  /\ (Did("NewChat", s) /\ cid # "" /\ OnlySystem(customer_chats[s][cid]))
                => HistoryLog(disk', cid) = HistoryLog(disk, cid)
            /\ (Did("NewChatFresh", s) /\ OnlySystem(old_chat[s]))
                => HistoryLog(disk', cid) = HistoryLog(disk, cid)]_vars

C9_Witness ==
    /\ op.name = "NewChat"
    /\ pc[op.tab] = "archived"
    /\ customer_id[op.tab] = "42"
    /\ old_chat[op.tab] = <<SystemMessage>>
    /\ Len(HistoryLog(disk, "42")) >= 2

\* C10: a run of the script with an empty customer ID box (a new empty
\* value, New Chat pressed, or the chat box) writes no record, leaves the
\* session's conversations as they are and starts no completion request.
C10_EmptyCustomerDoesNothing ==
    [][\A s \in tabs :
        (/\ customer_id'[s] = ""
         /\ op'.tab = s
         /\ op'.name \in {"SetCustomer", "NewChat", "Submit"})
        => /\ disk' = disk
           /\ customer_chats'[s] = customer_chats[s]
           /\ pc'[s] = "idle"
           /\ stream'[s] = stream[s]]_vars

C10_Witness ==
    /\ op.name = "NewChat"
    /\ customer_id[op.tab] = ""
    /\ pc[op.tab] = "idle"
    /\ "42" \in DOMAIN customer_chats[op.tab]
    /\ Len(HistoryLog(disk, "42")) >= 2

\* what a load of the customer yields from the directory
Reload(d, cid) ==
    IF HasActiveRecord(d, cid) THEN ActiveRecord(d, cid)
    ELSE <<Msg("system", system_prompt)>>

IsSuffix(a, b) ==
    Len(a) <= Len(b) /\ SubSeq(b, Len(b) - Len(a) + 1, Len(b)) = a

Holds(seq, m) == \E i \in 1..Len(seq) : seq[i] = m

\* user, assistant, user, assistant, ...
Alternates(seq) ==
    \A i \in 1..Len(seq) :
        seq[i].role = (IF i % 2 = 1 THEN "user" ELSE "assistant")

\* C11: without the API credential nothing but the halt happens: no
\* conversation is loaded, no record is written and no completion request
\* is made.
C11_NoCredentialNoOperation ==
    api_key = ""
    => /\ op.name \in {"start", "Halted", "Restart"}
       /\ disk = EmptyDict
       /\ \A s \in tabs :
            /\ customer_chats[s] = EmptyDict
            /\ pc[s] = "idle"

C11_Witness ==
    /\ api_key = ""
    /\ op.name = "Halted"

\* C12 (two sessions, SpecTwo): every write of the active record by a
\* session leaves exactly that session's conversation as the record and
\* moves nothing to the history, whatever the other session had persisted;
\* C12_LostUpdate is the reachable state where a message one session
\* persisted is in neither record.
C12_LastWriterWins ==
    [][\A s \in tabs :
        LET cid == customer_id[s]
        IN  (op'.tab = s /\ op'.name \in {"Submit", "Finish", "Fail"} /\ cid # "")
            => /\ HasActiveRecord(disk', cid)
               /\ ActiveRecord(disk', cid) = customer_chats'[s][cid]
               /\ HistoryLog(disk', cid) = HistoryLog(disk, cid)]_vars

C12_LostUpdate ==
    /\ tabs = {1, 2}
    /\ op.tab = 2
    /\ op.name \in {"Submit", "Finish", "Fail"}
    /\ pc[1] = "idle"
    /\ SoloID \in DOMAIN customer_chats[1]
    /\ customer_chats[1][SoloID]
         = <<SystemMessage, Msg("user", "Hello"), Msg("assistant", "Hi there")>>
    /\ ~Holds(ActiveRecord(disk, SoloID), Msg("assistant", "Hi there"))
    /\ ~Holds(HistoryLog(disk, SoloID), Msg("assistant", "Hi there"))

\* C13 (one customer, SpecSolo): the messages after the leading system
\* message of the active conversation, in memory and persisted, alternate
\* user, assistant, ...
C13_Alternation ==
    /\ \A s \in tabs : \A cid \in DOMAIN customer_chats[s] :
         Alternates(Tail(customer_chats[s][cid]))
    /\ Alternates(Tail(Reload(disk, SoloID)))

\* C14: across every step that is not a step of a reset, the active
\* conversation of a customer before the step, persisted or in a session's
\* memory, is a prefix of the one after it.
C14_OnlyResetTruncates ==
    [][op'.name \notin {"NewChat", "NewChatFresh"}
        => \A cid \in CustomerIDs :
            /\ HasActiveRecord(disk, cid)
                => /\ HasActiveRecord(disk', cid)
                   /\ IsPrefix(ActiveRecord(disk, cid), ActiveRecord(disk', cid))
            /\ \A s \in tabs :
                (cid \in DOMAIN customer_chats[s] /\ cid \in DOMAIN customer_chats'[s])
                => IsPrefix(customer_chats[s][cid], customer_chats'[s][cid])]_vars

\* C15: the first write of a reset puts every non-system message of the old
\* conversation at the tail of the history and leaves the persisted active
\* record alone; whatever follows that state, the fresh record or a stop
\* of the process, the messages are still at the tail of the history.
C15_ArchiveBeforeOverwrite ==
    [][\A s \in tabs :
        LET cid == customer_id[s]
        IN  /\ (Did("NewChat", s) /\ cid # "")
                => /\ IsSuffix(WithoutSystem(customer_chats[s][cid]),
                               HistoryLog(disk', cid))
                   /\ HasActiveRecord(disk', cid) = HasActiveRecord(disk, cid)
                   /\ Reload(disk', cid) = Reload(disk, cid)
            /\ pc[s] = "archived"
                => IsSuffix(WithoutSystem(old_chat[s]), HistoryLog(disk', cid))]_vars

C15_Witness ==
    /\ op.name = "NewChat"
    /\ pc[op.tab] = "archived"
    /\ customer_id[op.tab] = "42"
    /\ old_chat[op.tab]
         = <<SystemMessage, Msg("user", "Hello"), Msg("assistant", "Hi there")>>
    /\ ActiveRecord(disk, "42") = old_chat[op.tab]
    /\ HistoryLog(disk, "42")
         = <<Msg("user", "Hello"), Msg("assistant", "Hi there")>>

\* the role of the last message of the persisted active conversation
LastRole(d, cid) == Last(Reload(d, cid)).role

\* C16 (one customer, FairSolo): whenever a user message is the last
\* message of the persisted conversation, an assistant message eventually
\* follows it.
C16_EveryMessageAnswered ==
    (LastRole(disk, SoloID) = "user") ~> (LastRole(disk, SoloID) = "assistant")

\* C17: when the process restarts with no operation in progress, the load
\* of a customer from the directory yields the conversation a session held
\* for that customer just before, and the history is as it was.
C17_RestartKeepsConversations ==
    [][(op'.name = "Restart" /\ \A s \in tabs : pc[s] = "idle")
        => \A s \in tabs : \A cid \in DOMAIN customer_chats[s] :
            /\ Reload(disk', cid) = customer_chats[s][cid]
            /\ HistoryLog(disk', cid) = HistoryLog(disk, cid)]_vars

\* C18: a run of the script for customer A leaves the active record, the
\* history record and the in-memory conversations of every other customer
\* B as they were.
C18_CustomerIsolation ==
    [][\A s \in tabs :
        (op'.tab = s /\ op'.name # "Restart")
        => \A b \in CustomerIDs \ {customer_id'[s]} :
            /\ HasActiveRecord(disk', b) = HasActiveRecord(disk, b)
            /\ Reload(disk', b) = Reload(disk, b)
            /\ (history_file(b) \in DOMAIN disk') = (history_file(b) \in DOMAIN disk)
            /\ HistoryLog(disk', b) = HistoryLog(disk, b)
            /\ \A t \in tabs :
                /\ (b \in DOMAIN customer_chats'[t]) = (b \in DOMAIN customer_chats[t])
                /\ b \in DOMAIN customer_chats[t]
                    => customer_chats'[t][b] = customer_chats[t][b]]_vars

\* every message persisted for a customer: the history followed by the
\* non-system messages of the active record
Ledger(d, cid) == HistoryLog(d, cid) \o WithoutSystem(Reload(d, cid))

\* the history without its last n entries
WithoutTail(d, cid, n) ==
    SubSeq(HistoryLog(d, cid), 1, Len(HistoryLog(d, cid)) - n)

\* C19 (one customer, SpecSolo), step by step: from one state with no
\* operation in progress to the next, the history followed by the non-system
\* messages of the active record grows by exactly the message an append
\* appends and is otherwise the same, also when the state in the middle of
\* a reset is left by a stop of the process.
C19_MessageConservation ==
    [][\A s \in tabs :
        LET cid == SoloID
        IN  /\ (Did("Submit", s) /\ customer_id[s] = cid)
                => Ledger(disk', cid)
                     = Append(Ledger(disk, cid), Msg("user", user_input'[s]))
            /\ (op'.tab = s /\ op'.name \in {"Finish", "Fail"})
                => Ledger(disk', cid)
                     = Append(Ledger(disk, cid),
                              Msg("assistant", streamed_text'[s]))
            /\ (op'.name \in {"SetCustomer", "Chunk", "Interrupt", "Halted"}
                \/ (op'.name = "Restart" /\ pc[s] # "archived"))
                => Ledger(disk', cid) = Ledger(disk, cid)
            /\ (pc[s] = "archived" /\ op'.name \in {"NewChatFresh", "Restart"})
                => Ledger(disk', cid)
                     = WithoutTail(disk, cid, Len(WithoutSystem(old_chat[s])))
                         \o WithoutSystem(Reload(disk, cid))]_vars

Contains(text, part) ==
    \E i \in 1..(Len(text) - Len(part) + 1) :
        SubSeq(text, i, i + Len(part) - 1) = part

\* C20: when the stream fails after events were received, the content of
\* the stored assistant message is the error marker followed by the message
\* of the exception, and holds none of the deltas received.
C20_ErrorReplacesPartialText ==
    [][\A s \in tabs :
        (Did("Fail", s) /\ Len(stream[s]) >= 1)
        => LET cid == customer_id[s]
               stored == Last(ActiveRecord(disk', cid))
           IN  /\ stored.role = "assistant"
               /\ \E e \in Errors : stored.content = ErrorMarker \o e
               /\ \A i \in 1..Len(stream[s]) :
                    stream[s][i].present
                    => ~Contains(stored.content, stream[s][i].content)]_vars

C20_Witness ==
    /\ op.name = "Fail"
    /\ stream[op.tab] = <<Event("Hi"), NoDelta, Event(" there")>>
    /\ customer_id[op.tab] = "42"
    /\ Last(ActiveRecord(disk, "42")) = Msg("assistant", "Error: timeout")
    /\ Last(customer_chats[op.tab]["42"]) = Msg("assistant", "Error: timeout")

====
